---- MODULE Spec2Model ----
(***************************************************************************)
(* A model of restore_net_use.py: the NET USE parser, the three            *)
(* retry-until-deadline loops (conntest, list_connections, connect), the   *)
(* log and mail sinks, and the module-level reconciliation loop.           *)
(*                                                                         *)
(* Time is counted in whole seconds.  A text is the result of              *)
(* splitlines(): a sequence of lines, and a line is the result of split(): *)
(* a sequence of tokens.  A Python value that may be None is a tuple:      *)
(* <<>> for None / unassigned, <<v>> for the value v.                      *)
(***************************************************************************)
EXTENDS Integers, Sequences, FiniteSets, TLC

VARIABLES
    args,        \* the parsed command line (argparse namespace)
    pc,          \* position of the script
    exitcode,    \* <<>> while running, <<n>> once the process has ended
    loop,        \* loop variable of `for loop in range(args.loops)`
    loglines,    \* module variable loglines
    logline,     \* module variable logline: <<>> while unassigned
    net_use,     \* text last returned by the NET USE command
    errors,      \* errors, as returned by list_connections
    connections, \* records returned by parse_connections
    idx,         \* enumerate index of the reconnect loop (0-based)
    elapsed,     \* now - start of the retry loop in progress, 0 outside one
    listElapsed, \* inside list_connections: time since its first attempt (saturating)
    envStable,   \* the environment is stable: share states change only by a
                 \* reconnect command, and every reconnect command succeeds
    osConn,      \* the connection state of the remembered shares; tracked in a
                 \* stable environment, where a listing reports it; otherwise any
                 \* share may change state at any time and only its length is used
    diskOk,      \* the log file can be opened and written
    emitted,     \* lines handed to log() since the current pass started
    written,     \* lines appended to the log file since the current pass started
    mails,       \* messages handed to the SMTP relay
    delays,      \* number of inter-pass delays slept so far
    attempts,    \* 0-based indices for which connect() was called in this pass
    failed       \* indices for which connect() returned False in this pass

vars == <<args, pc, exitcode, loop, loglines, logline, net_use, errors,
          connections, idx, elapsed, listElapsed, envStable, osConn, diskOk,
          emitted, written, mails, delays, attempts, failed>>

-----------------------------------------------------------------------------
(* Bounds of the model *)

MaxShares == 2
MaxLoops == 2
MaxTimeout == 1
MaxDur == 2
MaxLines == 3

(* the saturation point of the listElapsed clock *)
ElapsedCap == MaxTimeout + 2

Min(a, b) == IF a < b THEN a ELSE b

-----------------------------------------------------------------------------
(* Python values *)

None == <<>>
Some(v) == <<v>>

\* truth value of an Optional[int]: None and 0 are falsy
TruthyInt(o) == o # None /\ o[1] # 0

\* loglines is None or a list: truthy iff a non-empty list
TruthyList(l) == l # None /\ l[1] # <<>>

RECURSIVE Join(_, _)
\* sep.join(strs)
Join(sep, strs) ==
    IF strs = <<>> THEN ""
    ELSE IF Len(strs) = 1 THEN strs[1]
    ELSE strs[1] \o sep \o Join(sep, Tail(strs))

-----------------------------------------------------------------------------
(* The NET USE listing *)

Drives == <<"Z:", "Y:", "X:", "W:">>
Remotes == <<"\\\\srv\\a", "\\\\srv\\a-very-long-share-name", "\\\\srv\\c", "\\\\srv\\d-very-long-share-name">>

Marker == <<"Microsoft", "Windows", "Network">>
Header == <<"Status", "Local", "Remote", "Network">>
Trailer == <<"The", "command", "completed", "successfully.">>

StatusToken(conn) == IF conn THEN "OK" ELSE "Unavailable"

\* a share row on one line
Row6(st, i) == <<st, Drives[i], Remotes[i]>> \o Marker
\* the first line of a share row whose remote name is too long for its column
Row3(st, i) == <<st, Drives[i], Remotes[i]>>

\* NET USE wraps the rows of the shares with a long remote name
Wrapped(i) == i % 2 = 0

RECURSIVE Rows(_, _)
Rows(st, i) ==
    IF i > Len(st) THEN <<>>
    ELSE (IF Wrapped(i) THEN <<Row3(StatusToken(st[i]), i), Marker>>
                        ELSE <<Row6(StatusToken(st[i]), i)>>) \o Rows(st, i + 1)

\* the text NET USE prints for the shares with connection states st
NetUseOutput(st) == <<Header>> \o Rows(st, 1) \o <<Trailer>>

\* re.match("[A-Z]:", tok), over the tokens of the model
IsLocalName(tok) == tok \in {Drives[i] : i \in DOMAIN Drives}

\* the test of parse_connections on a line and the line after it
IsShareRow(cols, nextcols) ==
    \/ Len(cols) = 6 /\ IsLocalName(cols[2]) /\ SubSeq(cols, 4, Len(cols)) = Marker
    \/ Len(cols) = 3 /\ Len(nextcols) = 3 /\ IsLocalName(cols[2]) /\ nextcols = Marker

\* the record appended for a matching line
Record(cols) == <<cols[1] = "OK", cols[2], cols[3]>>

RECURSIVE ParseFrom(_, _)
\* the loop over zip(lines[:-1], lines[1:]), from pair k on
ParseFrom(lines, k) ==
    IF k >= Len(lines) THEN <<>>
    ELSE (IF IsShareRow(lines[k], lines[k + 1]) THEN <<Record(lines[k])>> ELSE <<>>)
         \o ParseFrom(lines, k + 1)

ParseConnections(lines) == ParseFrom(lines, 1)

-----------------------------------------------------------------------------
(* The Reporter: log, send, log_and_send *)

DefaultLoopDelay == 10
MaxInt == 2147483647
SmtpHost == "relay"
ConnTestTarget == "8.8.8.8:53"

\* one line of the log file: "{}\t{}\n".format(datetime.datetime.now(), line)
FileLine(line) == "<now>" \o "\t" \o line \o "\n"

\* what log(logfile, line, ...) appends to the log file
LogWrites(line) ==
    IF ~args.logfile \/ line = "" THEN <<>>
    ELSE IF diskOk THEN <<FileLine(line)>> ELSE <<>>

\* what log(logfile, line, ll) returns
LogReturn(line, ll) ==
    IF ~args.logfile \/ line = "" THEN None
    ELSE LET appended == IF diskOk /\ TruthyList(ll) THEN Some(Append(ll[1], line)) ELSE ll
         IN IF TruthyList(appended) THEN appended ELSE None

SmtpLine == "SMTP server " \o SmtpHost \o " unreachable/unusable"

\* the message send() composes (the Date, From and To headers are left out)
Message(lines) == [subject |-> "NET restore report", body |-> Join("\n", lines)]

\* the guard of send(): lines is None or a list of lines
Sendable(lines) ==
    args.smtp /\ args.sender /\ args.recipients /\ lines # None /\ lines[1] # <<>>

\* outcomes of the SMTP dialogue: accepted, refused before the message was
\* accepted, or accepted with s.quit() raising afterwards
SmtpOutcomes == {"sent", "refused", "quit_failed"}

\* the outcomes send(..., lines) can have: none when it returns at line 102
MailOutcomes(lines) == IF Sendable(lines) THEN SmtpOutcomes ELSE {"none"}

\* the message the relay accepts
SendMails(lines, o) ==
    IF o \in {"sent", "quit_failed"} THEN <<Message(lines[1])>> ELSE <<>>

\* the log call of line 116
SendEmits(lines, o) ==
    IF o \in {"refused", "quit_failed"} THEN <<SmtpLine>> ELSE <<>>

SendWrites(lines, o) ==
    IF o \in {"refused", "quit_failed"} THEN LogWrites(SmtpLine) ELSE <<>>

\* the effect of log_and_send(..., line) on the sinks
LogAndSend(line, o) ==
    /\ emitted' = emitted \o <<line>> \o SendEmits(Some(<<line>>), o)
    /\ written' = written \o LogWrites(line) \o SendWrites(Some(<<line>>), o)
    /\ mails' = mails \o SendMails(Some(<<line>>), o)

-----------------------------------------------------------------------------
(* Report lines *)

LoopsText == IF args.loops = MaxInt THEN "inf" ELSE ToString(args.loops)
LoopLine == "Loop " \o ToString(loop + 1) \o " of " \o LoopsText
DelayLine == "Delay " \o ToString(args.loopdelay) \o "s"
ListFailLine == "Could not read connection list"
TestLine == "This is a test message"
ProbeLine == ConnTestTarget \o " not reachable after " \o ToString(args.conntimeout[1]) \o "s"

ReportLine(c) == c[2] \o c[3]
RestoredLine(c) == "Restored " \o ReportLine(c)
\* a failure reported with the wrong word
ProblemsLineSwapped(c) == "Restored " \o ReportLine(c)

ProblemsLine(c) == "Problems " \o ReportLine(c)

RECURSIVE Ok(_)
\* ok = [x[1]+x[2] for x in connections if x[0]]
Ok(cs) ==
    IF cs = <<>> THEN <<>>
    ELSE (IF cs[1][1] THEN <<ReportLine(cs[1])>> ELSE <<>>) \o Ok(Tail(cs))

ExistingLine(cs) == "Existing " \o Join(", ", Ok(cs))

RECURSIVE Repr(_)
Repr(lines) ==
    IF lines = <<>> THEN ""
    ELSE "'" \o Join(" ", lines[1]) \o "'" \o (IF Len(lines) > 1 THEN ", " ELSE "")
         \o Repr(Tail(lines))

\* str(lines), logged when --dumpnetuse is set
DumpLine(lines) == "[" \o Repr(lines) \o "]"

RECURSIVE LogAll(_, _)
\* loglines after `loglines = log(args.logfile, line, loglines)` for each line of ls
LogAll(ls, ll) == IF ls = <<>> THEN ll ELSE LogAll(Tail(ls), LogReturn(ls[1], ll))

RECURSIVE WritesAll(_)
WritesAll(ls) == IF ls = <<>> THEN <<>> ELSE LogWrites(ls[1]) \o WritesAll(Tail(ls))

-----------------------------------------------------------------------------
(* The environment *)

BoolSeqs(n) == [1..n -> BOOLEAN]

\* the share states a listing may report
ListStatus == IF envStable THEN {osConn} ELSE BoolSeqs(Len(osConn))

\* whether one invocation of the reconnect command may succeed
ConnectOutcomes == IF envStable THEN {TRUE} ELSE BOOLEAN

\* the share a record is about
ShareOf(c) == CHOOSE i \in 1..Len(Drives) : Drives[i] = c[2]

\* the share states after the reconnect command has succeeded for record c
Reconnected(c) ==
    IF envStable THEN [osConn EXCEPT ![ShareOf(c)] = TRUE] ELSE osConn

\* the command lines of the model; --sender has a non-empty default (line 44)
Configs ==
    [timeout : 1..MaxTimeout, loops : 0..MaxLoops, loopdelay : {DefaultLoopDelay},
     conntimeout : {None, Some(0), Some(MaxTimeout)},
     logfile : BOOLEAN, smtp : BOOLEAN, sender : {TRUE}, recipients : BOOLEAN,
     testmail : BOOLEAN, onebyone : BOOLEAN, dumpnetuse : BOOLEAN]

Init ==
    /\ args \in Configs
    /\ pc = "sanity"
    /\ exitcode = None
    /\ loop = 0
    /\ loglines = None
    /\ logline = None
    /\ net_use = <<>>
    /\ errors = FALSE
    /\ connections = <<>>
    /\ idx = 0
    /\ elapsed = 0
    /\ listElapsed = 0
    /\ envStable = FALSE
    /\ osConn \in {[i \in 1..n |-> FALSE] : n \in 0..MaxShares}
    /\ diskOk \in (IF args.logfile THEN BOOLEAN ELSE {TRUE})
    /\ emitted = <<>>
    /\ written = <<>>
    /\ mails = <<>>
    /\ delays = 0
    /\ attempts = <<>>
    /\ failed = {}

-----------------------------------------------------------------------------
(* The script *)

\* lines 53-60
SanityFails ==
    \/ args.timeout < 1
    \/ args.loops < 1
    \/ args.loopdelay < 1
    \/ TruthyInt(args.conntimeout) /\ args.conntimeout[1] < 0

SanityChecks ==
    /\ pc = "sanity"
    /\ IF SanityFails
       THEN pc' = "valueerror" /\ exitcode' = Some(1)
       ELSE pc' = "testmail" /\ exitcode' = exitcode
    /\ UNCHANGED <<args, loop, loglines, logline, net_use, errors, connections, idx,
                   elapsed, listElapsed, osConn, envStable, diskOk, emitted, written,
                   mails, delays, attempts, failed>>

\* the test message logged and sent, but with the sys.exit(0) of line 185 left out
TestMailFallsThrough ==
    /\ pc = "testmail"
    /\ IF ~args.testmail
       THEN pc' = "gate" /\ UNCHANGED <<exitcode, emitted, written, mails>>
       ELSE IF ~args.smtp \/ ~args.recipients
       THEN pc' = "valueerror" /\ exitcode' = Some(1) /\ UNCHANGED <<emitted, written, mails>>
       ELSE \E o \in MailOutcomes(Some(<<TestLine>>)) :
              /\ LogAndSend(TestLine, o)
              /\ pc' = "gate"
              /\ exitcode' = exitcode
    /\ UNCHANGED <<args, loop, loglines, logline, net_use, errors, connections, idx,
                   elapsed, listElapsed, osConn, envStable, diskOk, delays, attempts,
                   failed>>

\* lines 181-185
TestMail ==
    /\ pc = "testmail"
    /\ IF ~args.testmail
       THEN pc' = "gate" /\ UNCHANGED <<exitcode, emitted, written, mails>>
       ELSE IF ~args.smtp \/ ~args.recipients
       THEN pc' = "valueerror" /\ exitcode' = Some(1) /\ UNCHANGED <<emitted, written, mails>>
       ELSE \E o \in MailOutcomes(Some(<<TestLine>>)) :
              /\ LogAndSend(TestLine, o)
              /\ pc' = "exit_testmail"
              /\ exitcode' = Some(0)
    /\ UNCHANGED <<args, loop, loglines, logline, net_use, errors, connections, idx,
                   elapsed, listElapsed, osConn, envStable, diskOk, delays, attempts,
                   failed>>

\* line 188, the test of args.conntimeout; line 193
ConnGate ==
    /\ pc = "gate"
    /\ IF TruthyInt(args.conntimeout)
       THEN pc' = "conntest" /\ elapsed' = 0 /\ loglines' = loglines
       ELSE pc' = "loop" /\ elapsed' = elapsed /\ loglines' = Some(<<>>)
    /\ UNCHANGED <<args, exitcode, loop, logline, net_use, errors, connections, idx,
                   listElapsed, osConn, envStable, diskOk, emitted, written, mails,
                   delays, attempts, failed>>

\* the probe with the `except Exception` of line 115 left out of send: a
\* failure of the relay ends the run with the traceback of smtplib
ConnTestSendRaises ==
    /\ pc = "conntest"
    /\ \/ /\ pc' = "loop"
          /\ loglines' = Some(<<>>)
          /\ elapsed' = 0
          /\ UNCHANGED <<exitcode, emitted, written, mails>>
       \/ \E d \in 0..MaxDur :
            IF elapsed + d + 1 > args.conntimeout[1]
            THEN /\ \E o \in MailOutcomes(Some(<<ProbeLine>>)) :
                      /\ LogAndSend(ProbeLine, o)
                      /\ pc' = IF o = "refused" THEN "smtperror" ELSE "exit_conntest"
                 /\ exitcode' = Some(1)
                 /\ elapsed' = 0
                 /\ UNCHANGED loglines
            ELSE /\ elapsed' = elapsed + d + 1
                 /\ UNCHANGED <<pc, exitcode, loglines, emitted, written, mails>>
    /\ UNCHANGED <<args, loop, logline, net_use, errors, connections, idx,
                   listElapsed, osConn, envStable, diskOk, delays, attempts, failed>>

\* conntest, lines 65-76, one attempt; lines 188-190 and 193 on its return
ConnTest ==
    /\ pc = "conntest"
    /\ \/ /\ pc' = "loop"
          /\ loglines' = Some(<<>>)
          /\ elapsed' = 0
          /\ UNCHANGED <<exitcode, emitted, written, mails>>
       \/ \E d \in 0..MaxDur :
            IF elapsed + d + 1 > args.conntimeout[1]
            THEN /\ \E o \in MailOutcomes(Some(<<ProbeLine>>)) : LogAndSend(ProbeLine, o)
                 /\ pc' = "exit_conntest"
                 /\ exitcode' = Some(1)
                 /\ elapsed' = 0
                 /\ UNCHANGED loglines
            ELSE /\ elapsed' = elapsed + d + 1
                 /\ UNCHANGED <<pc, exitcode, loglines, emitted, written, mails>>
    /\ UNCHANGED <<args, loop, logline, net_use, errors, connections, idx,
                   listElapsed, osConn, envStable, diskOk, delays, attempts, failed>>

\* lines 194-200: the head of a pass
PassLines == <<LoopLine>> \o (IF loop # 0 THEN <<DelayLine>> ELSE <<>>)

LoopHead ==
    /\ pc = "loop"
    /\ loglines' = LogAll(PassLines, loglines)
    /\ emitted' = PassLines
    /\ written' = WritesAll(PassLines)
    /\ delays' = IF loop # 0 THEN delays + 1 ELSE delays
    /\ attempts' = <<>>
    /\ failed' = {}
    /\ listElapsed' = 0
    /\ pc' = "list"
    /\ UNCHANGED <<args, exitcode, loop, logline, net_use, errors, connections, idx,
                   elapsed, osConn, envStable, diskOk, mails>>

\* list_connections, line 136: start is taken anew before every attempt
\* (line 129), so now - start is the duration d of the attempt that failed
ListDeadlinePassed(d) == d > args.timeout

\* the log call of parse_connections, lines 147-148
DumpLines(lines) == IF args.dumpnetuse THEN <<DumpLine(lines)>> ELSE <<>>

\* list_connections, lines 128-133 and 140: an attempt that succeeds
ListOk ==
    /\ pc = "list"
    /\ \E st \in ListStatus : net_use' = NetUseOutput(st)
    /\ errors' = FALSE
    /\ connections' = ParseConnections(net_use')
    /\ emitted' = emitted \o DumpLines(net_use')
    /\ written' = written \o WritesAll(DumpLines(net_use'))
    /\ listElapsed' = 0
    /\ pc' = "listed"
    /\ UNCHANGED <<args, exitcode, loop, loglines, logline, idx, elapsed,
                   osConn, envStable, diskOk, mails, delays, attempts, failed>>

\* list_connections, lines 128-140: an attempt that fails after d seconds
ListFail ==
    /\ pc = "list"
    /\ \E d \in 0..MaxDur :
         IF ListDeadlinePassed(d)
         THEN /\ pc' = "listed"
              /\ errors' = TRUE
              /\ connections' = <<>>
              /\ listElapsed' = 0
         ELSE /\ pc' = "list"
              /\ listElapsed' = Min(listElapsed + d + 1, ElapsedCap)
              /\ UNCHANGED <<errors, connections>>
    /\ UNCHANGED <<args, exitcode, loop, loglines, logline, net_use, idx, elapsed,
                   osConn, envStable, diskOk, emitted, written, mails, delays,
                   attempts, failed>>

\* a listing failure reported, but with the sys.exit(1) of line 206 left out
ListFailedContinues ==
    /\ pc = "listed"
    /\ errors
    /\ \E o \in MailOutcomes(Some(<<ListFailLine>>)) : LogAndSend(ListFailLine, o)
    /\ pc' = "for"
    /\ idx' = 0
    /\ UNCHANGED <<args, exitcode, loop, loglines, logline, net_use, errors, connections,
                   elapsed, listElapsed, osConn, envStable, diskOk, delays, attempts,
                   failed>>

\* lines 204-206
ListFailed ==
    /\ pc = "listed"
    /\ errors
    /\ \E o \in MailOutcomes(Some(<<ListFailLine>>)) : LogAndSend(ListFailLine, o)
    /\ pc' = "exit_list"
    /\ exitcode' = Some(1)
    /\ UNCHANGED <<args, loop, loglines, logline, net_use, errors, connections, idx,
                   elapsed, listElapsed, osConn, envStable, diskOk, delays, attempts,
                   failed>>

\* the early stop compared off by one
AllConnectedOffByOne(cs) == Len(Ok(cs)) + 1 = Len(cs)

\* line 212
AllConnected(cs) == Len(Ok(cs)) = Len(cs)

\* lines 209-213
ExistingLines(cs) == IF Len(Ok(cs)) # 0 THEN <<ExistingLine(cs)>> ELSE <<>>

Partition ==
    /\ pc = "listed"
    /\ ~errors
    /\ loglines' = LogAll(ExistingLines(connections), loglines)
    /\ emitted' = emitted \o ExistingLines(connections)
    /\ written' = written \o WritesAll(ExistingLines(connections))
    /\ IF Len(Ok(connections)) # 0 /\ AllConnected(connections)
       THEN pc' = "send" /\ idx' = idx
       ELSE pc' = "for" /\ idx' = 0
    /\ UNCHANGED <<args, exitcode, loop, logline, net_use, errors, connections,
                   elapsed, listElapsed, osConn, envStable, diskOk, mails, delays,
                   attempts, failed>>

\* one-by-one mode taking the first record that is not connected
MayConnectFirstDisconnected(i) ==
    (args.onebyone /\ \A j \in 1..i : connections[j][1]) \/ ~args.onebyone

\* line 217: args.onebyone and not idx or not args.onebyone
MayConnect(i) == (args.onebyone /\ i = 0) \/ ~args.onebyone

\* line 221, with logline assigned
LogRecord(line) ==
    /\ loglines' = LogReturn(line, loglines)
    /\ emitted' = Append(emitted, line)
    /\ written' = written \o LogWrites(line)

\* lines 214-221 for a record that needs no call of connect
ForRecord ==
    /\ pc = "for"
    /\ idx < Len(connections)
    /\ LET c == connections[idx + 1] IN
         \/ /\ c[1]
            /\ logline # None
            /\ logline' = logline
            /\ LogRecord(logline[1])
         \/ /\ ~c[1]
            /\ ~MayConnect(idx)
            /\ logline' = Some(ProblemsLine(c))
            /\ LogRecord(ProblemsLine(c))
    /\ idx' = idx + 1
    /\ UNCHANGED <<args, pc, exitcode, loop, net_use, errors, connections, elapsed,
                   listElapsed, osConn, envStable, diskOk, mails, delays, attempts,
                   failed>>

\* line 221 reached for a connected record with logline never assigned:
\* NameError, which nothing catches
ForNameError ==
    /\ pc = "for"
    /\ idx < Len(connections)
    /\ connections[idx + 1][1]
    /\ logline = None
    /\ pc' = "nameerror"
    /\ exitcode' = Some(1)
    /\ UNCHANGED <<args, loop, loglines, logline, net_use, errors, connections, idx,
                   elapsed, listElapsed, osConn, envStable, diskOk, emitted, written,
                   mails, delays, attempts, failed>>

\* lines 216-217 and 163: connect is called
ForConnect ==
    /\ pc = "for"
    /\ idx < Len(connections)
    /\ ~connections[idx + 1][1]
    /\ MayConnect(idx)
    /\ pc' = "connect"
    /\ elapsed' = 0
    /\ attempts' = Append(attempts, idx)
    /\ UNCHANGED <<args, exitcode, loop, loglines, logline, net_use, errors,
                   connections, idx, listElapsed, osConn, envStable, diskOk, emitted,
                   written, mails, delays, failed>>

\* the deadline of connect never passing
ConnectDeadlineNever(e) == FALSE

\* connect, line 171: start is taken once, before the loop (line 163)
ConnectDeadlinePassed(e) == e > args.timeout

\* connect, lines 164-175, one attempt; lines 217-221 on its return
ConnectTry ==
    /\ pc = "connect"
    /\ LET c == connections[idx + 1] IN
         \/ /\ TRUE \in ConnectOutcomes
            /\ osConn' = Reconnected(c)
            /\ logline' = Some(RestoredLine(c))
            /\ LogRecord(RestoredLine(c))
            /\ idx' = idx + 1
            /\ pc' = "for"
            /\ elapsed' = 0
            /\ UNCHANGED failed
         \/ /\ FALSE \in ConnectOutcomes
            /\ \E d \in 0..MaxDur :
                 IF ConnectDeadlinePassed(elapsed + d)
                 THEN /\ logline' = Some(ProblemsLine(c))
                      /\ LogRecord(ProblemsLine(c))
                      /\ failed' = failed \cup {idx}
                      /\ idx' = idx + 1
                      /\ pc' = "for"
                      /\ elapsed' = 0
                      /\ UNCHANGED osConn
                 ELSE /\ elapsed' = elapsed + d + 1
                      /\ UNCHANGED <<pc, idx, logline, loglines, emitted, written,
                                     failed, osConn>>
    /\ UNCHANGED <<args, exitcode, loop, net_use, errors, connections, listElapsed,
                   envStable, diskOk, mails, delays, attempts>>

\* line 194: the reconnect loop is over, range(args.loops) yields the next pass or ends
ForEnd ==
    /\ pc = "for"
    /\ idx = Len(connections)
    /\ IF loop + 1 < args.loops
       THEN pc' = "loop" /\ loop' = loop + 1
       ELSE pc' = "send" /\ loop' = loop
    /\ UNCHANGED <<args, exitcode, loglines, logline, net_use, errors, connections,
                   idx, elapsed, listElapsed, osConn, envStable, diskOk, emitted,
                   written, mails, delays, attempts, failed>>

\* line 224, and the end of the script
Send ==
    /\ pc = "send"
    /\ \E o \in MailOutcomes(loglines) :
         /\ mails' = mails \o SendMails(loglines, o)
         /\ emitted' = emitted \o SendEmits(loglines, o)
         /\ written' = written \o SendWrites(loglines, o)
    /\ pc' = "done"
    /\ exitcode' = Some(0)
    /\ UNCHANGED <<args, loop, loglines, logline, net_use, errors, connections, idx,
                   elapsed, listElapsed, osConn, envStable, diskOk, delays, attempts,
                   failed>>

Next ==
    \/ SanityChecks
    \/ TestMail
    \/ ConnGate
    \/ ConnTest
    \/ LoopHead
    \/ ListOk
    \/ ListFail
    \/ ListFailed
    \/ Partition
    \/ ForRecord
    \/ ForNameError
    \/ ForConnect
    \/ ConnectTry
    \/ ForEnd
    \/ Send

Spec == Init /\ [][Next]_vars

\* the reporting options at their argparse defaults (lines 42-48): no log
\* file, no relay, no recipients, no test mail, no dump
InitDefaultReport ==
    /\ Init
    /\ ~args.logfile /\ ~args.smtp /\ ~args.recipients
    /\ ~args.testmail /\ ~args.dumpnetuse

\* the interpreter keeps running the retry loop of connect (lines 164-174):
\* the command it runs and the sleep of a second both return
SpecFair == InitDefaultReport /\ [][Next]_vars /\ WF_vars(ConnectTry)

-----------------------------------------------------------------------------
(* A stable environment, one-by-one mode *)

InitStable ==
    /\ args \in {a \in Configs : a.onebyone}
    /\ pc = "sanity"
    /\ exitcode = None
    /\ loop = 0
    /\ loglines = None
    /\ logline = None
    /\ net_use = <<>>
    /\ errors = FALSE
    /\ connections = <<>>
    /\ idx = 0
    /\ elapsed = 0
    /\ listElapsed = 0
    /\ envStable = TRUE
    /\ osConn \in UNION {BoolSeqs(n) : n \in 0..MaxShares}
    /\ diskOk \in (IF args.logfile THEN BOOLEAN ELSE {TRUE})
    /\ emitted = <<>>
    /\ written = <<>>
    /\ mails = <<>>
    /\ delays = 0
    /\ attempts = <<>>
    /\ failed = {}

SpecStable == InitStable /\ [][Next]_vars

-----------------------------------------------------------------------------
(* The parser on its own, over bounded listing texts *)

PrinterRow == <<"OK", "LPT1", "\\\\srv\\p">> \o Marker

SampleLines ==
    {Header, Trailer, Marker, <<>>, PrinterRow,
     Row6("OK", 1), Row6("Unavailable", 1), Row3("Unavailable", 2)}

Texts == UNION {[1..n -> SampleLines] : n \in 0..MaxLines}

DefaultArgs ==
    [timeout |-> 1, loops |-> 1, loopdelay |-> DefaultLoopDelay, conntimeout |-> None,
     logfile |-> TRUE, smtp |-> FALSE, sender |-> TRUE, recipients |-> FALSE,
     testmail |-> FALSE, onebyone |-> FALSE, dumpnetuse |-> FALSE]

InitParse ==
    /\ args \in {[DefaultArgs EXCEPT !.dumpnetuse = b] : b \in BOOLEAN}
    /\ pc = "parse"
    /\ exitcode = None
    /\ loop = 0
    /\ loglines = None
    /\ logline = None
    /\ net_use \in Texts
    /\ errors = FALSE
    /\ connections = <<>>
    /\ idx = 0
    /\ elapsed = 0
    /\ listElapsed = 0
    /\ envStable = FALSE
    /\ osConn = <<>>
    /\ diskOk = TRUE
    /\ emitted = <<>>
    /\ written = <<>>
    /\ mails = <<>>
    /\ delays = 0
    /\ attempts = <<>>
    /\ failed = {}

\* parse_connections, lines 143-157, on the text net_use
Parse ==
    /\ pc = "parse"
    /\ connections' = ParseConnections(net_use)
    /\ emitted' = emitted \o DumpLines(net_use)
    /\ written' = written \o WritesAll(DumpLines(net_use))
    /\ pc' = "parsed"
    /\ UNCHANGED <<args, exitcode, loop, loglines, logline, net_use, errors, idx,
                   elapsed, listElapsed, envStable, osConn, diskOk, mails, delays,
                   attempts, failed>>

NextParse == Parse

SpecParse == InitParse /\ [][NextParse]_vars

-----------------------------------------------------------------------------
(* Properties *)

Range(s) == {s[i] : i \in DOMAIN s}

RECURSIVE DisconnectedFrom(_, _)
\* the 0-based indices of the records of cs that are not connected, from k on
DisconnectedFrom(cs, k) ==
    IF k > Len(cs) THEN <<>>
    ELSE (IF cs[k][1] THEN <<>> ELSE <<k - 1>>) \o DisconnectedFrom(cs, k + 1)

Disconnected(cs) == DisconnectedFrom(cs, 1)

\* the reconnect loop of the current pass has run to its end
PassCompleted == pc = "for" /\ idx = Len(connections)

\* the current pass is over: completed, or ended by the NameError
PassOver == PassCompleted \/ pc = "nameerror"

MailConfigured == args.smtp /\ args.sender /\ args.recipients

-----------------------------------------------------------------------------
(* C1: list_connections stops retrying once more than timeout seconds have *)
(* passed since its first attempt.  At pc = "list" with listElapsed > 0 an  *)
(* attempt has failed and the function has slept one second to retry, so   *)
(* the time at which it chose to retry was listElapsed - 1.                 *)
C1_ListStopsAfterTimeout ==
    pc = "list" => listElapsed <= args.timeout + 1

-----------------------------------------------------------------------------
(* C2: without one-by-one mode, when a pass is over connect has been called *)
(* exactly once for every record listed as not connected, in listing order, *)
(* and for no connected record.                                             *)
C2_EveryDisconnectedAttempted ==
    (~args.onebyone /\ PassOver) => attempts = Disconnected(connections)

-----------------------------------------------------------------------------
\* the 6-column pattern, on a line of its own
SixColumnRow(cols) ==
    Len(cols) = 6 /\ IsLocalName(cols[2]) /\ SubSeq(cols, 4, 6) = Marker

\* line k of the text is the first line of a 3+3 wrapped pair
WrappedPairAt(lines, k) ==
    /\ k < Len(lines)
    /\ Len(lines[k]) = 3
    /\ IsLocalName(lines[k][2])
    /\ lines[k + 1] = Marker

RECURSIVE RowsOf(_, _)
\* one record for every line, from k on, that is a share row
RowsOf(lines, k) ==
    IF k > Len(lines) THEN <<>>
    ELSE (IF SixColumnRow(lines[k]) \/ WrappedPairAt(lines, k)
          THEN <<<<lines[k][1] = "OK", lines[k][2], lines[k][3]>>>> ELSE <<>>)
         \o RowsOf(lines, k + 1)

(* C3: parse_connections returns, in line order, exactly one record for     *)
(* every line that matches the 6-column pattern or starts a 3+3 wrapped     *)
(* pair, wherever the line stands in the text, and no other record; a       *)
(* header followed by the single row "OK Z: <remote> Microsoft Windows      *)
(* Network" yields the one record (TRUE, "Z:", <remote>).                   *)
C3_ParserExtractsEveryRow ==
    pc = "parsed" =>
        /\ connections = RowsOf(net_use, 1)
        /\ net_use = <<Header, Row6("OK", 1)>> =>
               connections = <<<<TRUE, Drives[1], Remotes[1]>>>>

-----------------------------------------------------------------------------
\* the lines of the current pass that were logged into loglines
ReportLines == SelectSeq(emitted, LAMBDA l : l \notin {DumpLine(net_use), SmtpLine})

IsSuffix(s, t) == Len(s) <= Len(t) /\ s = SubSeq(t, Len(t) - Len(s) + 1, Len(t))

\* send() has tried to send: the relay took the message, or the failure was logged
MailAttempted == mails # <<>> \/ (emitted # <<>> /\ emitted[Len(emitted)] = SmtpLine)

(* C4: on normal completion with relay, sender and recipients configured,   *)
(* one mail is sent after the loop; its body is the accumulated loglines,   *)
(* from which no emitted report line is missing.                            *)
C4_OneMailWithAllLines ==
    (pc = "done" /\ MailConfigured) =>
        /\ MailAttempted
        /\ Len(mails) <= 1
        /\ loglines # None
        /\ IsSuffix(ReportLines, loglines[1])
        /\ mails # <<>> => mails[1].body = Join("\n", loglines[1])

-----------------------------------------------------------------------------
(* C5: a run that passed the start-up checks ends with exit code 1 only     *)
(* after a failed connectivity probe or a failed listing.                   *)
C5_ExitOneOnlyOnProbeOrListing ==
    (exitcode = Some(1) /\ pc # "valueerror") => pc \in {"exit_conntest", "exit_list"}

-----------------------------------------------------------------------------
\* every record of the last listing is connected, and there is one
AllListedConnected == connections # <<>> /\ \A k \in DOMAIN connections : connections[k][1]

\* the loop was left by the break of line 213
Broke == pc \in {"send", "done"} /\ AllListedConnected

ListedNames == [k \in DOMAIN connections |-> connections[k][2] \o connections[k][3]]

(* C6: a pass whose listing yields records that are all connected invokes   *)
(* no reconnect command and ends the loop: the script goes on to the final  *)
(* send and ends, no later pass is started and no inter-pass delay is       *)
(* slept; when this is pass 1 of N, the lines of the run are one            *)
(* "Loop 1 of N" line and one "Existing ..." line.                         *)
C6_AllConnectedEndsLoop ==
    /\ [](Broke =>
            /\ attempts = <<>>
            /\ delays = loop
            /\ loop = 0 =>
                  ReportLines = <<"Loop 1 of " \o ToString(args.loops),
                                  "Existing " \o Join(", ", ListedNames)>>)
    /\ [][(pc = "listed" /\ ~errors /\ AllListedConnected) => pc' = "send"]_vars
    /\ [][pc = "send" =>
            (pc' = "done" /\ loop' = loop /\ delays' = delays /\ attempts' = attempts)]_vars
    /\ [][pc # "done"]_vars

C6_Witness ==
    /\ pc = "done"
    /\ loop = 0
    /\ args.loops >= 2
    /\ Len(connections) = 2
    /\ AllListedConnected
    /\ Len(ReportLines) = 2

-----------------------------------------------------------------------------
(* C7: in one-by-one mode, a pass whose listing has a record that is not    *)
(* connected makes exactly one reconnect attempt, for the first such record *)
(* in listing order.                                                        *)
C7_OneByOneAttemptsFirstDisconnected ==
    (args.onebyone /\ PassCompleted /\ Disconnected(connections) # <<>>) =>
        attempts = <<Disconnected(connections)[1]>>

-----------------------------------------------------------------------------
(* C8: in one-by-one mode and a stable environment, with at least as many   *)
(* passes as remembered shares, a run that completes leaves every share     *)
(* connected: each share that was disconnected has been reconnected.        *)
C8_OneByOneRestoresAll ==
    (args.onebyone /\ envStable /\ pc = "done" /\ args.loops >= Len(osConn)) =>
        \A i \in DOMAIN osConn : osConn[i]

-----------------------------------------------------------------------------
(* C9: a share whose reconnection fails does not abort the run: the failure *)
(* is reported as "Problems X", without one-by-one mode every record not    *)
(* connected is still attempted in that pass, and the next pass is started  *)
(* when the pass count is not exhausted.                                    *)
C9_FailedShareDoesNotAbort ==
    /\ [](/\ pc = "nameerror" => failed = {}
          /\ failed # {} => pc \in {"for", "connect", "loop", "send", "done"}
          /\ \A i \in failed :
                ("Problems " \o connections[i + 1][2] \o connections[i + 1][3])
                    \in Range(emitted)
          /\ (failed # {} /\ ~args.onebyone /\ PassCompleted) =>
                attempts = Disconnected(connections))
    /\ [][(failed # {} /\ PassCompleted /\ loop + 1 < args.loops) =>
            (pc' = "loop" /\ loop' = loop + 1)]_vars
    /\ [][pc = "loop" => pc' = "list"]_vars

C9_Witness ==
    /\ PassCompleted
    /\ ~args.onebyone
    /\ 0 \in failed
    /\ attempts = <<0, 1>>
    /\ loop + 1 < args.loops

-----------------------------------------------------------------------------
(* C10: when list_connections returns a listing failure, the line "Could    *)
(* not read connection list" goes to the log sink and to the mail sink, the *)
(* process ends with exit code 1, and no reconnect command is invoked in    *)
(* that pass nor anything done afterwards.                                  *)
C10_ListingFailureIsFatal ==
    /\ [](pc = "exit_list" =>
            /\ exitcode = Some(1)
            /\ attempts = <<>>
            /\ "Could not read connection list" \in Range(emitted)
            /\ (args.logfile /\ diskOk) =>
                  ("<now>" \o "\t" \o "Could not read connection list" \o "\n")
                      \in Range(written)
            /\ MailConfigured =>
                  \/ mails = <<[subject |-> "NET restore report",
                                body |-> "Could not read connection list"]>>
                  \/ emitted[Len(emitted)] = SmtpLine
            /\ ~MailConfigured => mails = <<>>)
    /\ [][(pc = "listed" /\ errors) => pc' = "exit_list"]_vars
    /\ [][pc # "exit_list"]_vars

C10_Witness ==
    /\ pc = "exit_list"
    /\ loop = 1
    /\ Len(mails) = 1
    /\ Len(written) = 3

-----------------------------------------------------------------------------
(* C11 *)

\* C11: with a loop count of 0 the loop is unbounded: the run is not
\* rejected, it enters the loop (past the probe, if one is configured), and
\* it ends without error only after a pass that found every record
\* connected, never because some number of passes has been executed
C11_ZeroLoopsIsUnbounded ==
    (args.loops = 0 /\ args.timeout >= 1 /\ args.loopdelay >= 1 /\ ~args.testmail
        /\ exitcode # None)
    => /\ pc # "valueerror"
       /\ pc = "done" => AllListedConnected

-----------------------------------------------------------------------------
(* C13 *)

\* the values of --conntimeout that pass the check of line 59
ConnTimeoutConfigured == args.conntimeout # None /\ args.conntimeout[1] >= 0

\* C13: the probe is a gate before any listing: when a connectivity timeout
\* is configured, with any value the non-negative check accepts, the gate
\* runs the probe, the loop is entered only from a probe that succeeded, and
\* a probe that fails past its timeout ends the run with exit code 1; the
\* gate passes straight to the loop only when no timeout is configured
C13_ProbeGatesTheLoop ==
    [][/\ (pc = "gate" /\ ConnTimeoutConfigured) => pc' = "conntest"
       /\ (pc = "gate" /\ pc' = "loop") => args.conntimeout = None
       /\ (pc # "loop" /\ pc' = "loop" /\ loop' = 0 /\ ConnTimeoutConfigured)
            => pc = "conntest"
       /\ (pc = "conntest" /\ pc' \notin {"conntest", "loop"})
            => pc' = "exit_conntest" /\ exitcode' = Some(1)]_vars

-----------------------------------------------------------------------------
(* C17 *)

\* C17: a pass whose listing parses to zero records ends the loop: no
\* reconnect is attempted in it, and no later pass is started and no delay
\* is slept after it (at the head of a later pass `connections` still holds
\* the listing of the pass before)
C17_EmptyListingEndsLoop ==
    /\ (pc \in {"for", "connect", "send"} /\ connections = <<>>) => attempts = <<>>
    /\ (pc = "loop" /\ loop > 0) => connections # <<>>

-----------------------------------------------------------------------------
(* C15 *)

\* the 'Restored X' / 'Problems X' lines among the lines handed to log in
\* the current pass
ResultLinesOf(cs) == {"Restored " \o c[2] \o c[3] : c \in Range(cs)}
                        \cup {"Problems " \o c[2] \o c[3] : c \in Range(cs)}

IsResultLine(l) == l \in ResultLinesOf(connections)

ResultLines == SelectSeq(emitted, IsResultLine)

\* the line an attempt on the record at index i is to produce
AttemptLine(i) ==
    (IF i \in failed THEN "Problems " ELSE "Restored ")
        \o connections[i + 1][2] \o connections[i + 1][3]

\* C15: in every pass the 'Restored X' / 'Problems X' lines are in
\* one-to-one correspondence with the reconnect attempts of the pass: one
\* line per attempt, in order, naming the attempted record, 'Restored' iff
\* the attempt succeeded; a record not attempted causes no line
C15_OneResultLinePerAttempt ==
    PassCompleted
    => ResultLines = [k \in 1..Len(attempts) |-> AttemptLine(attempts[k])]

-----------------------------------------------------------------------------
(* C19 *)

\* the indices a pass is to attempt, from its listing and the options alone
RECURSIVE AttemptsFrom(_, _)
AttemptsFrom(cs, k) ==
    IF k > Len(cs) THEN <<>>
    ELSE (IF ~cs[k][1] /\ (~args.onebyone \/ k = 1) THEN <<k - 1>> ELSE <<>>)
            \o AttemptsFrom(cs, k + 1)

\* C19: every pass decides from its own fresh listing only: the records
\* stay as the parser produced them from the listing of the pass, the pass
\* stops early exactly when that listing has every record connected, and
\* the records it has attempted when it is over are those its listing (and
\* the options) alone determine, whatever happened in earlier passes
C19_PassDependsOnOwnListing ==
    /\ pc \in {"listed", "for", "connect"} /\ ~errors
         => connections = ParseConnections(net_use)
    /\ (pc = "for" /\ connections # <<>>) => ~AllListedConnected
    /\ PassOver => attempts = AttemptsFrom(connections, 1)

-----------------------------------------------------------------------------
(* C20 *)

\* the lines line 218 or 220 can assign for the record c
LinesFor(c) == {"Restored " \o c[2] \o c[3], "Problems " \o c[2] \o c[3]}

\* the per-record log step of line 221 has just run for the record at idx
LoggedRecord == pc \in {"for", "connect"} /\ pc' = "for" /\ idx' = idx + 1

\* C20: the loop never emits a report line it has not computed for the
\* record at hand: no step reads an unassigned line, and whenever the
\* per-record log step runs, the line it emits is one assigned for the
\* record it is at, in a step for a record that has a line assigned (for a
\* connected record nothing assigns one)
C20_LineIsOfRecordAtHand ==
    [][/\ pc' # "nameerror"
       /\ LoggedRecord
            => /\ emitted'[Len(emitted')] \in LinesFor(connections[idx + 1])
               /\ ~connections[idx + 1][1]]_vars


-----------------------------------------------------------------------------
(* C14 *)

\* no probe, listing or reconnect has been started
NothingInvoked ==
    /\ pc \in {"sanity", "valueerror", "testmail", "exit_testmail"}
    /\ net_use = <<>> /\ connections = <<>> /\ attempts = <<>>
    /\ elapsed = 0 /\ listElapsed = 0 /\ loop = 0 /\ delays = 0

\* the test message was handed to the log and to the relay: the relay took
\* it, or the failure of the relay was logged
TestMessageLoggedAndSent ==
    /\ emitted[1] = "This is a test message"
    /\ (args.logfile /\ diskOk) => written[1] = FileLine("This is a test message")
    /\ \/ mails = <<[subject |-> "NET restore report", body |-> "This is a test message"]>>
       \/ emitted = <<"This is a test message", SmtpLine>>

\* C14: in test-mail mode no probe, list or connect command is ever
\* invoked; with the relay or the recipients missing the run aborts with a
\* configuration error before anything is logged or sent, and with both
\* configured it logs and sends the test message and exits with code 0
C14_TestMailOnly ==
    args.testmail
    => /\ NothingInvoked
       /\ (exitcode # None /\ (~args.smtp \/ ~args.recipients))
            => pc = "valueerror" /\ exitcode = Some(1)
                 /\ emitted = <<>> /\ mails = <<>> /\ written = <<>>
       /\ (exitcode # None /\ args.smtp /\ args.recipients /\ ~SanityFails)
            => pc = "exit_testmail" /\ exitcode = Some(0) /\ TestMessageLoggedAndSent

C14_Witness ==
    /\ args.testmail
    /\ pc = "exit_testmail"
    /\ exitcode = Some(0)
    /\ Len(mails) = 1
    /\ Len(written) = 1

-----------------------------------------------------------------------------
(* C16 *)

\* C16: with one-by-one mode set, a reconnect attempt is only ever made for
\* the record at index 0 of the full listing, and only when that record is
\* not connected: in no pass is a record at index > 0 attempted
C16_OneByOneOnlyIndexZero ==
    args.onebyone
    => /\ \A k \in 1..Len(attempts) : attempts[k] = 0 /\ ~connections[1][1]
       /\ Len(attempts) <= 1
       /\ pc = "connect" => idx = 0 /\ ~connections[1][1]

C16_Witness ==
    /\ args.onebyone
    /\ PassCompleted
    /\ loop = 1
    /\ Len(connections) = 2
    /\ ~connections[1][1] /\ ~connections[2][1]
    /\ attempts = <<0>>

-----------------------------------------------------------------------------
(* C18 *)

\* connect returns to the loop
ConnectReturns == pc = "connect" /\ pc' = "for"

\* C18: connect always terminates, within a bounded number of attempts, and
\* leaves the record alone: every call returns; inside a call, every failed attempt that does not end
\* the call finished no more than `timeout` seconds after the first one
\* started and is followed by a sleep of a second, so at most timeout + 1
\* attempts are retried; the call returns true (a 'Restored' line follows)
\* or false (a 'Problems' line follows, the attempt is counted as failed),
\* and the loop moves to the next record; and no step of the call changes
\* the record or the record list
C18_ConnectBounded ==
    /\ [][pc = "connect"
       => /\ elapsed <= args.timeout + 1
          /\ connections' = connections
          /\ pc' \in {"connect", "for"}
          /\ pc' = "connect"
               => /\ elapsed' >= elapsed + 1
                  /\ elapsed' - 1 <= args.timeout
                  /\ idx' = idx /\ emitted' = emitted
          /\ ConnectReturns
               => /\ idx' = idx + 1
                  /\ elapsed' = 0
                  /\ \/ /\ idx \notin failed'
                        /\ logline' = Some("Restored " \o connections[idx + 1][2]
                                                        \o connections[idx + 1][3])
                     \/ /\ idx \in failed'
                        /\ logline' = Some("Problems " \o connections[idx + 1][2]
                                                        \o connections[idx + 1][3])]_vars
    /\ (pc = "connect") ~> (pc = "for")

\* a call that retried up to the bound and then returned false
C18_Witness ==
    /\ pc = "for"
    /\ idx = 1
    /\ 0 \in failed
    /\ attempts = <<0>>
    /\ logline = Some(ProblemsLine(connections[1]))

-----------------------------------------------------------------------------
(* C12 *)

IsSmtpLine(l) == l = "SMTP server relay unreachable/unusable"

\* the diagnostic lines of send() a step hands to log
SmtpLinesAdded == Len(SelectSeq(emitted', IsSmtpLine)) - Len(SelectSeq(emitted, IsSmtpLine))

MailsAdded == Len(mails') - Len(mails)

\* a step that calls send or log_and_send
MailStep ==
    /\ pc' # pc
    /\ pc' \in {"exit_testmail", "exit_conntest", "exit_list", "done"}

\* what the run does next in the step at hand, by the state of the script
\* alone: the outcome of the relay and of the log file has no part in it
ControlAsWithSinksUp ==
    /\ pc = "testmail" /\ args.testmail /\ args.smtp /\ args.recipients
         => pc' = "exit_testmail" /\ exitcode' = Some(0)
    /\ (pc = "conntest" /\ pc' \notin {"conntest", "loop"})
         => pc' = "exit_conntest" /\ exitcode' = Some(1)
    /\ (pc = "listed" /\ errors) => pc' = "exit_list" /\ exitcode' = Some(1)
    /\ pc = "send" => pc' = "done" /\ exitcode' = Some(0)
    /\ MailStep => UNCHANGED <<loop, idx, logline, loglines, net_use, errors,
                               connections, attempts, failed, delays>>

\* C12: failures of the log sink and of the mail sink never change the
\* control flow: a step that logs or mails continues as the state of the
\* script alone determines, with the same exit code, whether the relay
\* fails and whether the log file can be written; a mail failure hands
\* exactly one 'SMTP server ... unreachable/unusable' line to the log sink,
\* as the last line of the step, and a run never ends by an error of
\* a sink: it ends with exit code 1 only for a rejected configuration, a
\* failed probe, a failed listing, or the unassigned line of C20
C12_SinkFailuresSwallowed ==
    /\ [][/\ ControlAsWithSinksUp
          /\ MailsAdded \in {0, 1} /\ SmtpLinesAdded \in {0, 1}
          /\ (MailStep /\ pc # "send" /\ MailConfigured)
               => MailsAdded = 1 \/ SmtpLinesAdded = 1
          /\ (~MailStep \/ ~MailConfigured) => MailsAdded = 0 /\ SmtpLinesAdded = 0
          /\ SmtpLinesAdded = 1
               => /\ IsSmtpLine(emitted'[Len(emitted')])
                  /\ (args.logfile /\ diskOk)
                       => written'[Len(written')]
                            = "<now>\tSMTP server relay unreachable/unusable\n"
          /\ ~diskOk => written' = <<>>]_vars
    /\ [](exitcode = Some(1)
            => \/ pc = "valueerror" /\ (SanityFails \/ args.testmail)
               \/ pc = "exit_conntest" /\ TruthyInt(args.conntimeout)
               \/ pc = "exit_list" /\ errors
               \/ pc = "nameerror" /\ logline = None)

\* a second pass ends on a listing failure with exit code 1 while the log
\* file cannot be written and the relay refuses the mail
C12_Witness ==
    /\ pc = "exit_list"
    /\ exitcode = Some(1)
    /\ loop = 1
    /\ attempts = <<>>
    /\ args.logfile /\ ~diskOk
    /\ mails = <<>>
    /\ IsSmtpLine(emitted[Len(emitted)])
    /\ written = <<>>

TypeOK == pc \in {"sanity", "valueerror", "testmail", "exit_testmail", "gate", "conntest",
                  "exit_conntest", "loop", "list", "listed", "exit_list", "for",
                  "nameerror", "connect", "send", "done", "parse", "parsed"}

====
